---- MODULE Spec2Model ----
(***************************************************************************)
(* git-stack-watch: the change-detection-and-commit cycle (checkAndCommit), *)
(* the classifier (findComposeChanges, getStackName), the commit engine    *)
(* (commitStackChange) and the push step (pushToRemote), over a repository  *)
(* made of three trees: HEAD, the index and the working tree.              *)
(*                                                                         *)
(* A path is a sequence of path components; a content is a natural number, *)
(* 0 standing for "no file".  The go-git calls the program makes           *)
(* (Status, Add, Remove, Commit, Push) are modelled at their call sites.   *)
(***************************************************************************)
EXTENDS Naturals, Sequences, FiniteSets

\* ---------------------------------------------------------------- bounds
MaxFaults == 1      \* I/O failures of the scan, the staging and the commit calls
MaxTicks == 2       \* timer periods that elapse in one behaviour of the scheduler

\* ------------------------------------------------------------- the inputs
\* the files of the watched repository: two configuration files of the same
\* directory (the root) and one file that is not a configuration file
RootYml   == <<"compose.yml">>
RootYaml  == <<"compose.yaml">>
OtherFile == <<"a", "b", "docker-compose.yml">>
Paths == {RootYml, RootYaml, OtherFile}

\* the paths the classifier is run on alone
ClassifyPaths ==
    { <<"compose.yml">>, <<"compose.yaml">>,
      <<"a", "b", "compose.yaml">>, <<"docker", "komodo", "compose.yml">>,
      <<"a", "compose.yml">>, <<"/", "compose.yml">>,
      <<"a", "b", "docker-compose.yml">>, <<"compose.yml", "notes.txt">>,
      <<"a", "b", "compose.yaml.bak">>, <<"Compose.yml">>, <<"a", "b", "compose.yml~">> }

\* file contents: 0 is "no file", 1 and 2 are two versions of a file (two are
\* enough for every pair of status flags: HEAD 1, index 2, working tree 1)
Contents == {0, 1, 2}

\* ChangeType constants
Created == "created"
Updated == "updated"
Deleted == "deleted"

\* go-git status codes read by the classifier
Unmodified == "unmodified"
Untracked  == "untracked"
Modified   == "modified"
Added      == "added"
GitDeleted == "git-deleted"
Renamed    == "renamed"
Copied     == "copied"
UpdatedButUnmerged == "unmerged"
StatusCodes == {Unmodified, Untracked, Modified, Added, GitDeleted, Renamed,
                Copied, UpdatedButUnmerged}

VARIABLES
    head,           \* tree of the last commit: path -> content
    index,          \* the staging area: path -> content
    wt,             \* the working tree: path -> content
    log,            \* the commits the running (or last) cycle created, oldest first
    unpushed,       \* number of local commits the remote does not have
    pushFlag,       \* the --push flag
    pc,             \* position in checkAndCommit: "idle" or "commit" (in the loop or past it)
    status,         \* the status read by the running cycle
    changes,        \* the classified list of the running cycle
    i,              \* index of the next Change of the loop
    commitCount,    \* the cycle's counter of successful commits
    faults,         \* I/O failures so far
    attempts,       \* history: <<path, err>> of every commitStackChange call of the cycle
    pushCalls,      \* history: pushToRemote calls of the cycle
    outcome,        \* history: how the cycle ended
    prev,           \* history: summary of the previous cycle
    out,            \* the lines the running (or last) cycle has reported, in order
    branch,         \* the commits of the local branch created since the start
    mainpc,         \* position in main: "open", "startup", "cycle", "select",
                    \* "exited", "fatal" ("none": the cycle is run without main)
    tickBuf,        \* ticks waiting in ticker.C
    sigBuf,         \* signals waiting in sigChan
    tickerStopped,  \* ticker.Stop() has run
    ticksFired,     \* history: timer periods elapsed so far
    ticksHandled,   \* history: ticks received by the select
    cyclesStarted,  \* history: calls of checkAndCommit
    firedInCycle,   \* history: timer periods elapsed since the last cycle started
    signalled       \* history: a signal was delivered to the process

\* the repository, the cycle and its history
cvars == <<head, index, wt, log, unpushed, pushFlag, pc, status, changes, i,
           commitCount, faults, attempts, pushCalls, outcome, prev, out, branch>>

\* main and its two channels
svars == <<mainpc, tickBuf, sigBuf, tickerStopped, ticksFired, ticksHandled,
           cyclesStarted, firedInCycle, signalled>>

vars == <<cvars, svars>>

\* ---------------------------------------------------------- path helpers
\* filepath.Base: the last component; "." for the empty path
Base(p) == IF Len(p) = 0 THEN "." ELSE p[Len(p)]

\* filepath.Dir: all but the last component; "." when nothing is left,
\* "/" when only the root is left
Dir(p) ==
    IF p = <<"/">> THEN <<"/">>
    ELSE IF Len(p) <= 1 THEN <<".">>
    ELSE SubSeq(p, 1, Len(p) - 1)

\* the filename allow-list of findComposeChanges
IsComposeFileAny(filePath) == TRUE
IsComposeFile(filePath) ==
    LET fileName == Base(filePath)
    IN  ~(fileName # "compose.yml" /\ fileName # "compose.yaml")

getStackNameNoRoot(filePath) == Base(Dir(filePath))
getStackName(filePath) ==
    LET dir == Dir(filePath)
        stackName == Base(dir)
    IN  IF stackName = "." \/ stackName = "/" THEN "root" ELSE stackName

\* ------------------------------------------------------- worktree.Status
\* staged flag: HEAD against the index (an untracked file is Untracked on
\* both sides)
StagingCode(h, ix, w, p) ==
    IF h[p] = 0 /\ ix[p] = 0 THEN (IF w[p] # 0 THEN Untracked ELSE Unmodified)
    ELSE IF h[p] = 0 THEN Added
    ELSE IF ix[p] = 0 THEN GitDeleted
    ELSE IF h[p] # ix[p] THEN Modified
    ELSE Unmodified

\* working-tree flag: the index against the working tree
WorktreeCode(h, ix, w, p) ==
    IF ix[p] = 0 THEN (IF w[p] # 0 THEN Untracked ELSE Unmodified)
    ELSE IF w[p] = 0 THEN GitDeleted
    ELSE IF ix[p] # w[p] THEN Modified
    ELSE Unmodified

\* the status map: one record for every path that is not clean
WorktreeStatus(h, ix, w) ==
    LET changed == {p \in Paths : StagingCode(h, ix, w, p) # Unmodified
                                  \/ WorktreeCode(h, ix, w, p) # Unmodified}
    IN  [p \in changed |-> [Staging  |-> StagingCode(h, ix, w, p),
                            Worktree |-> WorktreeCode(h, ix, w, p)]]

\* ---------------------------------------------------- findComposeChanges
\* the switch of findComposeChanges; "none" is the default branch
changeTypeUpdatedFirst(fileStatus) ==
    IF fileStatus.Staging = Modified \/ fileStatus.Worktree = Modified THEN Updated
    ELSE IF fileStatus.Staging = Added \/ fileStatus.Worktree = Untracked THEN Created
    ELSE IF fileStatus.Staging = GitDeleted \/ fileStatus.Worktree = GitDeleted THEN Deleted
    ELSE "none"
changeTypeOf(fileStatus) ==
    IF fileStatus.Staging = Added \/ fileStatus.Worktree = Untracked THEN Created
    ELSE IF fileStatus.Staging = GitDeleted \/ fileStatus.Worktree = GitDeleted THEN Deleted
    ELSE IF fileStatus.Staging = Modified \/ fileStatus.Worktree = Modified THEN Updated
    ELSE "none"

\* the loop body for one map entry: the Changes it appends (none or one)
changesOfEntry(st, filePath) ==
    IF ~IsComposeFile(filePath) THEN <<>>
    ELSE IF changeTypeOf(st[filePath]) = "none" THEN <<>>
    ELSE << [StackName  |-> getStackName(filePath),
             FilePath   |-> filePath,
             ChangeType |-> changeTypeOf(st[filePath])] >>

RECURSIVE findComposeChangesFrom(_, _, _)
findComposeChangesFrom(st, order, k) ==
    IF k > Len(order) THEN <<>>
    ELSE changesOfEntry(st, order[k]) \o findComposeChangesFrom(st, order, k + 1)

\* order: the order in which the range over the status map visits its keys
findComposeChanges(st, order) == findComposeChangesFrom(st, order, 1)

\* every order a map iteration can take
IterationOrders(S) ==
    {o \in [1 .. Cardinality(S) -> S] : \A a, b \in DOMAIN o : a # b => o[a] # o[b]}

\* ------------------------------------------------------ commitStackChange
\* worktree.Remove: drops the index entry and the file; fails when the index
\* has no entry for the path or on an I/O failure, leaving both as they were
WorktreeRemove(ix, w, path, ioFail) ==
    IF ioFail \/ ix[path] = 0
    THEN [err |-> TRUE, index |-> ix, wt |-> w]
    ELSE [err |-> FALSE, index |-> [ix EXCEPT ![path] = 0],
                         wt    |-> [w EXCEPT ![path] = 0]]

\* worktree.Add: brings the index entry to the file's state on disk (drops
\* the entry when the file is gone); nothing to do when they already agree
WorktreeAdd(ix, w, path, ioFail) ==
    IF ioFail \/ (ix[path] = 0 /\ w[path] = 0)
    THEN [err |-> TRUE, index |-> ix, wt |-> w]
    ELSE [err |-> FALSE, index |-> [ix EXCEPT ![path] = w[path]], wt |-> w]

\* worktree.Commit with default options: the new commit's tree is the whole
\* index; fails on an I/O or identity failure and when the tree equals HEAD's
WorktreeCommit(h, ix, ioFail) ==
    IF ioFail \/ h = ix
    THEN [err |-> TRUE, head |-> h]
    ELSE [err |-> FALSE, head |-> ix]

\* fmt.Sprintf("%s %s", change.ChangeType, change.StackName)
commitMsgSwapped(change) == <<change.StackName, " ", change.ChangeType>>
commitMsgOf(change) == <<change.ChangeType, " ", change.StackName>>

\* the paths whose content a commit of tree ix on top of h changes
DeltaOf(h, ix) == {p \in Paths : h[p] # ix[p]}

\* the result of commitStackChange: err is "none", "stage" or "commit"
commitStackChangeCommitErrDropped(h, ix, w, change, stageFail, commitFail) ==
    LET staged == IF change.ChangeType = Deleted
                  THEN WorktreeRemove(ix, w, change.FilePath, stageFail)
                  ELSE WorktreeAdd(ix, w, change.FilePath, stageFail)
        made   == WorktreeCommit(h, staged.index, commitFail)
    IN  IF staged.err
        THEN [err |-> "stage", head |-> h, index |-> ix, wt |-> w, commits |-> <<>>]
        ELSE [err |-> "none", head |-> made.head, index |-> staged.index,
              wt |-> staged.wt,
              commits |-> IF made.err THEN <<>>
                          ELSE << [msg    |-> commitMsgOf(change),
                                   change |-> change,
                                   delta  |-> DeltaOf(h, staged.index)] >>]
commitStackChange(h, ix, w, change, stageFail, commitFail) ==
    LET staged == IF change.ChangeType = Deleted
                  THEN WorktreeRemove(ix, w, change.FilePath, stageFail)
                  ELSE WorktreeAdd(ix, w, change.FilePath, stageFail)
        made   == WorktreeCommit(h, staged.index, commitFail)
    IN  IF staged.err
        THEN [err |-> "stage", head |-> h, index |-> ix, wt |-> w, commits |-> <<>>]
        ELSE IF made.err
        THEN [err |-> "commit", head |-> h, index |-> staged.index, wt |-> staged.wt,
              commits |-> <<>>]
        ELSE [err |-> "none", head |-> made.head, index |-> staged.index,
              wt |-> staged.wt,
              commits |-> << [msg    |-> commitMsgOf(change),
                              change |-> change,
                              delta  |-> DeltaOf(h, staged.index)] >>]

\* ----------------------------------------------------------- pushToRemote
PushResults == {"pushed", "uptodate", "noremote", "failed", "autherr"}

\* TRUE when pushToRemote returns a non-nil error
pushToRemoteErrUpToDate(result) == result # "pushed"
pushToRemoteErr(result) == result \in {"noremote", "failed", "autherr"}

\* the lines pushToRemote logs
pushToRemoteLines(result) ==
    <<"Pushing to remote...">> \o
    (IF result = "uptodate" THEN <<"Already up to date">>
     ELSE IF result = "noremote" THEN <<"No remote available, please add one!">>
     ELSE IF result = "pushed" THEN <<"Successfully pushed to remote">>
     ELSE <<>>)

\* the line the loop reports for one commitStackChange call
attemptLine(err) == IF err # "none" THEN "Failed to commit" ELSE "Created commit"

\* --------------------------------------------------------- checkAndCommit
\* the condition of the push branch
ShouldPushFlagOnly(flag, count) == flag
ShouldPush(flag, count) == flag /\ count > 0

\* the counter after one loop iteration
countAfter(count, err) == IF err # "none" THEN count ELSE count + 1

\* the loop index after one iteration: `continue` goes to the next Change
indexAfterAbort(k, err) == IF err = "none" THEN k + 1 ELSE Len(changes) + 1
indexAfter(k, err) == k + 1

Clean(c) == [p \in Paths |-> c]

NoPrev == [ran |-> FALSE, scanned |-> FALSE, failed |-> {}]

Max(a, b) == IF a >= b THEN a ELSE b

\* main's variables where the cycle is run without main
NoScheduler ==
    /\ mainpc = "none"
    /\ tickBuf = 0
    /\ sigBuf = 0
    /\ tickerStopped = FALSE
    /\ ticksFired = 0
    /\ ticksHandled = 0
    /\ cyclesStarted = 0
    /\ firedInCycle = 0
    /\ signalled = FALSE

\* the repository the program is started on: any three trees.  The versions
\* of a file are numbered in the order HEAD, index, working tree first hold
\* them
Init ==
    /\ head \in [Paths -> {0, 1}]
    /\ index \in [Paths -> Contents]
    /\ wt \in [Paths -> Contents]
    /\ \A p \in Paths : /\ index[p] <= head[p] + 1
                        /\ wt[p] <= Max(head[p], index[p]) + 1
    /\ log = <<>>
    /\ unpushed = 0
    /\ pushFlag \in BOOLEAN
    /\ pc = "idle"
    /\ status = WorktreeStatus(Clean(0), Clean(0), Clean(0))
    /\ changes = <<>>
    /\ i = 1
    /\ commitCount = 0
    /\ faults = 0
    /\ attempts = <<>>
    /\ pushCalls = 0
    /\ outcome = "none"
    /\ prev = NoPrev
    /\ out = <<>>
    /\ branch = <<>>
    /\ NoScheduler

\* what a starting cycle remembers of the cycle before it
Summary ==
    IF outcome = "none" THEN NoPrev
    ELSE [ran |-> TRUE, scanned |-> outcome # "scanfail",
          failed  |-> {attempts[k][1] : k \in {n \in DOMAIN attempts : attempts[n][2] # "none"}}]

BeginCycle ==
    /\ pc = "idle"
    /\ prev' = Summary
    /\ log' = <<>>
    /\ attempts' = <<>>
    /\ pushCalls' = 0
    /\ i' = 1
    /\ commitCount' = 0

\* repo.Worktree() or worktree.Status() fails: the cycle returns at once
ScanFailsContinues ==
    /\ BeginCycle
    /\ faults < MaxFaults
    /\ faults' = faults + 1
    /\ status' = WorktreeStatus(head, index, wt)
    /\ \E order \in IterationOrders(DOMAIN status') :
           changes' = findComposeChanges(status', order)
    /\ outcome' = "scanfail"
    /\ \E line \in {"Failed to get worktree", "Failed to get status"} :
           out' = <<"Checking for compose file changes...", line>>
    /\ pc' = "commit"
    /\ UNCHANGED <<head, index, wt, unpushed, pushFlag, branch>>
ScanFails ==
    /\ BeginCycle
    /\ faults < MaxFaults
    /\ faults' = faults + 1
    /\ status' = WorktreeStatus(Clean(0), Clean(0), Clean(0))
    /\ changes' = <<>>
    /\ outcome' = "scanfail"
    /\ \E line \in {"Failed to get worktree", "Failed to get status"} :
           out' = <<"Checking for compose file changes...", line>>
    /\ pc' = "idle"
    /\ UNCHANGED <<head, index, wt, unpushed, pushFlag, branch>>

\* the scan succeeds and the classifier finds nothing
ScanNoChanges ==
    /\ BeginCycle
    /\ status' = WorktreeStatus(head, index, wt)
    /\ \E order \in IterationOrders(DOMAIN status') :
           /\ findComposeChanges(status', order) = <<>>
           /\ changes' = <<>>
    /\ outcome' = "nochanges"
    /\ out' = <<"Checking for compose file changes...",
                "No compose file changes detected.">>
    /\ pc' = "idle"
    /\ UNCHANGED <<head, index, wt, unpushed, pushFlag, faults, branch>>

\* the scan succeeds and the classifier finds Changes: the loop starts
ScanFindsChanges ==
    /\ BeginCycle
    /\ status' = WorktreeStatus(head, index, wt)
    /\ \E order \in IterationOrders(DOMAIN status') :
           /\ findComposeChanges(status', order) # <<>>
           /\ changes' = findComposeChanges(status', order)
    /\ outcome' = "running"
    /\ out' = <<"Checking for compose file changes...", "Found stack change(s)">>
    /\ pc' = "commit"
    /\ UNCHANGED <<head, index, wt, unpushed, pushFlag, faults, branch>>

\* one iteration of the commit loop
CommitNext ==
    /\ pc = "commit"
    /\ i <= Len(changes)
    /\ \E stageFail, commitFail \in BOOLEAN :
         LET r == commitStackChange(head, index, wt, changes[i], stageFail, commitFail)
         IN  /\ ~(stageFail /\ commitFail)
             /\ (stageFail \/ commitFail) => faults < MaxFaults
             /\ faults' = IF stageFail \/ commitFail THEN faults + 1 ELSE faults
             /\ head' = r.head
             /\ index' = r.index
             /\ wt' = r.wt
             /\ log' = log \o r.commits
             /\ branch' = branch \o r.commits
             /\ out' = Append(out, attemptLine(r.err))
             /\ unpushed' = unpushed + Len(r.commits)
             /\ commitCount' = countAfter(commitCount, r.err)
             /\ i' = indexAfter(i, r.err)
             /\ attempts' = Append(attempts, <<changes[i].FilePath, r.err>>)
    /\ UNCHANGED <<pushFlag, pc, status, changes, pushCalls, outcome, prev>>

\* the loop is over and the push branch is taken
PushBeforeLoopEnds ==
    /\ pc = "commit"
    /\ ShouldPush(pushFlag, commitCount)
    /\ \E result \in PushResults :
         /\ unpushed' = IF result = "pushed" THEN 0 ELSE unpushed
         /\ outcome' = IF pushToRemoteErr(result) THEN "pushfailed" ELSE "pushed"
         /\ out' = out \o pushToRemoteLines(result)
                       \o (IF pushToRemoteErr(result)
                           THEN <<"Failed to push to remote">> ELSE <<>>)
                       \o <<"Done.">>
    /\ pushCalls' = pushCalls + 1
    /\ pc' = "idle"
    /\ UNCHANGED <<head, index, wt, log, pushFlag, status, changes, i, commitCount,
                   faults, attempts, prev, branch>>
Push ==
    /\ pc = "commit"
    /\ i > Len(changes)
    /\ ShouldPush(pushFlag, commitCount)
    /\ \E result \in PushResults :
         /\ unpushed' = IF result = "pushed" THEN 0 ELSE unpushed
         /\ outcome' = IF pushToRemoteErr(result) THEN "pushfailed" ELSE "pushed"
         /\ out' = out \o pushToRemoteLines(result)
                       \o (IF pushToRemoteErr(result)
                           THEN <<"Failed to push to remote">> ELSE <<>>)
                       \o <<"Done.">>
    /\ pushCalls' = pushCalls + 1
    /\ pc' = "idle"
    /\ UNCHANGED <<head, index, wt, log, pushFlag, status, changes, i, commitCount,
                   faults, attempts, prev, branch>>

\* the loop is over and the push branch is not taken
NoPushSilent ==
    /\ pc = "commit"
    /\ i > Len(changes)
    /\ ~ShouldPush(pushFlag, commitCount)
    /\ outcome' = IF commitCount = 0 THEN "skippedpush" ELSE "done"
    /\ out' = out \o (IF commitCount = 0
                       THEN <<"No commits were created, skipping push.">> ELSE <<>>)
    /\ pc' = "idle"
    /\ UNCHANGED <<head, index, wt, log, unpushed, pushFlag, status, changes, i,
                   commitCount, faults, attempts, pushCalls, prev, branch>>
NoPush ==
    /\ pc = "commit"
    /\ i > Len(changes)
    /\ ~ShouldPush(pushFlag, commitCount)
    /\ outcome' = IF commitCount = 0 THEN "skippedpush" ELSE "done"
    /\ out' = out \o (IF commitCount = 0
                       THEN <<"No commits were created, skipping push.">> ELSE <<>>)
                  \o <<"Done.">>
    /\ pc' = "idle"
    /\ UNCHANGED <<head, index, wt, log, unpushed, pushFlag, status, changes, i,
                   commitCount, faults, attempts, pushCalls, prev, branch>>

\* the cycle on its own: checkAndCommit called again and again
Next ==
    \/ ScanFails /\ UNCHANGED svars
    \/ ScanNoChanges /\ UNCHANGED svars
    \/ ScanFindsChanges /\ UNCHANGED svars
    \/ CommitNext /\ UNCHANGED svars
    \/ Push /\ UNCHANGED svars
    \/ NoPush /\ UNCHANGED svars

Spec == Init /\ [][Next]_vars

\* ------------------------------------------------------------------- main
\* capacity of ticker.C (time.NewTicker) and of sigChan (make(chan os.Signal, 1))
TickCap == 1
SigCap == 1

\* the runtime's send on ticker.C: a tick is dropped when the channel is full
tickerSendQueued(buf) == buf + 1
tickerSend(buf) == IF buf < TickCap THEN buf + 1 ELSE buf

\* signal.Notify's send on sigChan: never blocks, the signal is dropped when
\* the channel is full
signalSendUnbuffered(buf) == IF mainpc = "select" THEN 1 ELSE buf
signalSend(buf) == IF buf < SigCap THEN buf + 1 ELSE buf

\* main before git.PlainOpen, on a repository whose files are committed and
\* may have been edited in the working tree
InitSched ==
    /\ head = Clean(1)
    /\ index = Clean(1)
    /\ wt \in [Paths -> {1, 2}]
    /\ log = <<>>
    /\ unpushed = 0
    /\ pushFlag \in BOOLEAN
    /\ pc = "idle"
    /\ status = WorktreeStatus(Clean(0), Clean(0), Clean(0))
    /\ changes = <<>>
    /\ i = 1
    /\ commitCount = 0
    /\ faults = 0
    /\ attempts = <<>>
    /\ pushCalls = 0
    /\ outcome = "none"
    /\ prev = NoPrev
    /\ out = <<>>
    /\ branch = <<>>
    /\ mainpc = "open"
    /\ tickBuf = 0
    /\ sigBuf = 0
    /\ tickerStopped = FALSE
    /\ ticksFired = 0
    /\ ticksHandled = 0
    /\ cyclesStarted = 0
    /\ firedInCycle = 0
    /\ signalled = FALSE

\* git.PlainOpen succeeds: the ticker and the signal channel are created
OpenSucceeds ==
    /\ mainpc = "open"
    /\ mainpc' = "startup"
    /\ UNCHANGED <<cvars, tickBuf, sigBuf, tickerStopped, ticksFired, ticksHandled,
                   cyclesStarted, firedInCycle, signalled>>

\* git.PlainOpen fails: log.Fatalf ends the process
OpenFails ==
    /\ mainpc = "open"
    /\ mainpc' = "fatal"
    /\ UNCHANGED <<cvars, tickBuf, sigBuf, tickerStopped, ticksFired, ticksHandled,
                   cyclesStarted, firedInCycle, signalled>>

\* a timer period elapses
TickFires ==
    /\ mainpc \in {"startup", "cycle", "select"}
    /\ ~tickerStopped
    /\ ticksFired < MaxTicks
    /\ ticksFired' = ticksFired + 1
    /\ firedInCycle' = firedInCycle + 1
    /\ tickBuf' = tickerSend(tickBuf)
    /\ UNCHANGED <<cvars, mainpc, sigBuf, tickerStopped, ticksHandled, cyclesStarted,
                   signalled>>

\* the process receives SIGINT or SIGTERM
SignalArrives ==
    /\ mainpc \in {"startup", "cycle", "select"}
    /\ signalled' = TRUE
    /\ sigBuf' = signalSend(sigBuf)
    /\ UNCHANGED <<cvars, mainpc, tickBuf, tickerStopped, ticksFired, ticksHandled,
                   cyclesStarted, firedInCycle>>

\* checkAndCommit is called: its first steps, up to the classified list
CallCheckAndCommit ==
    /\ (ScanFails \/ ScanNoChanges \/ ScanFindsChanges)
    /\ mainpc' = "cycle"
    /\ cyclesStarted' = cyclesStarted + 1
    /\ firedInCycle' = 0

\* "Run immediately on startup"
StartupCycleSkipped ==
    /\ mainpc = "startup"
    /\ mainpc' = "select"
    /\ UNCHANGED <<cvars, tickBuf, sigBuf, tickerStopped, ticksFired, ticksHandled,
                   cyclesStarted, firedInCycle, signalled>>
StartupCycle ==
    /\ mainpc = "startup"
    /\ CallCheckAndCommit
    /\ UNCHANGED <<tickBuf, sigBuf, tickerStopped, ticksFired, ticksHandled, signalled>>

\* the steps of the running cycle after the scan
CycleStep ==
    /\ mainpc = "cycle"
    /\ (CommitNext \/ Push \/ NoPush)
    /\ UNCHANGED svars

\* checkAndCommit returns to main, which enters (or re-enters) the select
CycleReturns ==
    /\ mainpc = "cycle"
    /\ pc = "idle"
    /\ mainpc' = "select"
    /\ UNCHANGED <<cvars, tickBuf, sigBuf, tickerStopped, ticksFired, ticksHandled,
                   cyclesStarted, firedInCycle, signalled>>

\* case <-ticker.C: the select picks it whenever a tick is waiting, whether
\* or not a signal is waiting too
HandleTick ==
    /\ mainpc = "select"
    /\ tickBuf > 0
    /\ tickBuf' = tickBuf - 1
    /\ ticksHandled' = ticksHandled + 1
    /\ CallCheckAndCommit
    /\ UNCHANGED <<sigBuf, tickerStopped, ticksFired, signalled>>

\* case <-sigChan: main returns and the deferred ticker.Stop() runs
HandleSignal ==
    /\ mainpc = "select"
    /\ sigBuf > 0
    /\ sigBuf' = sigBuf - 1
    /\ mainpc' = "exited"
    /\ tickerStopped' = TRUE
    /\ UNCHANGED <<cvars, tickBuf, ticksFired, ticksHandled, cyclesStarted,
                   firedInCycle, signalled>>

NextSched ==
    \/ OpenSucceeds
    \/ OpenFails
    \/ TickFires
    \/ SignalArrives
    \/ StartupCycle
    \/ CycleStep
    \/ CycleReturns
    \/ HandleTick
    \/ HandleSignal

SchedSpec == InitSched /\ [][NextSched]_vars

\* every cycle terminates, and a select whose two channels are both ready
\* picks one at random, so a waiting signal is picked sooner or later
FairSchedSpec ==
    /\ SchedSpec
    /\ WF_vars(StartupCycle)
    /\ WF_vars(CycleStep)
    /\ WF_vars(CycleReturns)
    /\ SF_vars(HandleSignal)

\* ------------------------------------------- the classifier run on its own
\* one status record of any path with any pair of status codes
InitClassify ==
    /\ head = Clean(0)
    /\ index = Clean(0)
    /\ wt = Clean(0)
    /\ log = <<>>
    /\ unpushed = 0
    /\ pushFlag = FALSE
    /\ pc = "classify"
    /\ \E filePath \in ClassifyPaths, s, w \in StatusCodes :
           status = [p \in {filePath} |-> [Staging |-> s, Worktree |-> w]]
    /\ changes = <<>>
    /\ i = 1
    /\ commitCount = 0
    /\ faults = 0
    /\ attempts = <<>>
    /\ pushCalls = 0
    /\ outcome = "none"
    /\ prev = NoPrev
    /\ out = <<>>
    /\ branch = <<>>
    /\ NoScheduler

Classify ==
    /\ pc = "classify"
    /\ \E order \in IterationOrders(DOMAIN status) :
           changes' = findComposeChanges(status, order)
    /\ pc' = "classified"
    /\ UNCHANGED <<head, index, wt, log, unpushed, pushFlag, status, i, commitCount,
                   faults, attempts, pushCalls, outcome, prev, out, branch>>
    /\ UNCHANGED svars

ClassifySpec == InitClassify /\ [][Classify]_vars

\* ------------------------------------------------------------ properties
ConfigNames == {"compose.yml", "compose.yaml"}

\* the positions of the classified list that hold a Change for path p
ChangesFor(p) == {k \in DOMAIN changes : changes[k].FilePath = p}

\* the running (or last) cycle has read a status
ScannedNow == outcome \notin {"none", "scanfail"}

\* the loop of the running (or last) cycle is over
LoopOver == pc = "idle" /\ outcome \in {"pushed", "pushfailed", "skippedpush", "done"}

\* C1: pushToRemote is invoked in a cycle only if push is enabled and at
\* least one commit was created in that cycle; with zero commits it is never
\* invoked
PushOnlyAfterCommit ==
    /\ pushCalls > 0 => (pushFlag /\ Len(log) > 0)
    /\ (LoopOver /\ Len(log) = 0) => pushCalls = 0

\* C1 witness: a cycle in which one attempt failed, one commit was created
\* and the push was invoked
PushAfterPartialSuccess ==
    /\ LoopOver
    /\ pushCalls = 1
    /\ Len(changes) = 2
    /\ Len(log) = 1

\* C2: a failed attempt never aborts the loop: the attempts of a cycle are
\* its Changes, in order, each once, and the counter is the number of
\* attempts that succeeded, which is the number of commits created
EveryChangeAttemptedOnce ==
    /\ Len(attempts) <= Len(changes)
    /\ \A k \in DOMAIN attempts : attempts[k][1] = changes[k].FilePath
    /\ LoopOver => Len(attempts) = Len(changes)
    /\ commitCount = Cardinality({k \in DOMAIN attempts : attempts[k][2] = "none"})
    /\ commitCount = Len(log)

\* C2 witness: the first of two Changes failed and the second was committed
SecondCommittedAfterFirstFailed ==
    /\ LoopOver
    /\ Len(attempts) = 2
    /\ attempts[1][2] # "none"
    /\ attempts[2][2] = "none"
    /\ commitCount = 1

FailedChangeRediscovered ==
    /\ \A j, k \in DOMAIN attempts : attempts[j][1] = attempts[k][1] => j = k
    /\ (prev.scanned /\ ScannedNow) => \A p \in prev.failed : ChangesFor(p) # {}

\* C5: the kind of a configuration path is the first match of Created,
\* Deleted, Updated over its two flags, and no Change is emitted when none
\* matches
ClassifierPrecedence ==
    pc # "classify" =>
        \A p \in DOMAIN status :
            Base(p) \in ConfigNames =>
                LET s == status[p].Staging
                    w == status[p].Worktree
                    isCreated == s = Added \/ w = Untracked
                    isDeleted == s = GitDeleted \/ w = GitDeleted
                    isUpdated == s = Modified \/ w = Modified
                    kinds == {changes[k].ChangeType : k \in ChangesFor(p)}
                IN  /\ Cardinality(ChangesFor(p)) <= 1
                    /\ isCreated => kinds = {Created}
                    /\ (~isCreated /\ isDeleted) => kinds = {Deleted}
                    /\ (~isCreated /\ ~isDeleted /\ isUpdated) => kinds = {Updated}
                    /\ (~isCreated /\ ~isDeleted /\ ~isUpdated) => kinds = {}

\* C5 witness: staged modified and deleted in the working tree gives Deleted
ModifiedThenDeletedIsDeleted ==
    /\ pc = "classified"
    /\ \E p \in DOMAIN status :
          /\ status[p].Staging = Modified
          /\ status[p].Worktree = GitDeleted
          /\ \E k \in ChangesFor(p) : changes[k].ChangeType = Deleted

\* C6: every emitted Change is for a path of the status map whose last
\* component is compose.yml or compose.yaml
OnlyConfigFilesEmitted ==
    \A k \in DOMAIN changes :
        /\ changes[k].FilePath \in DOMAIN status
        /\ changes[k].FilePath[Len(changes[k].FilePath)] \in ConfigNames

\* C6 witness: a staged new file that is not a configuration file, classified
\* to nothing
OtherFileDropped ==
    /\ pc = "classified"
    /\ \E p \in DOMAIN status :
          /\ p[Len(p)] \notin ConfigNames
          /\ status[p].Staging = Added
    /\ changes = <<>>

\* C7: no commit the program creates changes a path that is not a
\* configuration file
CommitsTouchOnlyConfigFiles ==
    \A k \in DOMAIN log : \A p \in log[k].delta : Base(p) \in ConfigNames

\* C8: every commit the program creates records the staged state of the file
\* of its Change only: among the configuration files it changes that file
\* and no other
CommitHoldsOnlyItsChange ==
    \A k \in DOMAIN log :
        {p \in log[k].delta : Base(p) \in ConfigNames} = {log[k].change.FilePath}

\* C9: the message of every commit is the lowercase kind, one space, the
\* stack name of the Change it was created for
CommitMessageFormat ==
    \A k \in DOMAIN log :
        \E j \in DOMAIN changes :
            /\ log[k].change = changes[j]
            /\ changes[j].ChangeType \in {"created", "updated", "deleted"}
            /\ log[k].msg = <<changes[j].ChangeType, " ", changes[j].StackName>>

\* C9 witness: the commit of a root-level deletion
DeletedRootCommitted ==
    \E k \in DOMAIN log : log[k].msg = <<"deleted", " ", "root">>

Reported(line) == \E k \in DOMAIN out : out[k] = line

\* the last line the cycle has reported
LastLine == out[Len(out)]

\* C14: a cycle whose worktree or status call failed classifies nothing,
\* stages and commits nothing, pushes nothing and is back at Idle with the
\* failure reported; the step leaves the repository, the branch and the
\* unpushed commits as they were, and only a new cycle scans again.
ScanFailureAbandonsCycle ==
    /\ [](outcome = "scanfail"
            => /\ pc = "idle"
               /\ changes = <<>>
               /\ attempts = <<>>
               /\ log = <<>>
               /\ commitCount = 0
               /\ pushCalls = 0
               /\ Len(out) = 2
               /\ LastLine \in {"Failed to get worktree", "Failed to get status"})
    /\ [][outcome' = "scanfail"
            => /\ head' = head
               /\ index' = index
               /\ wt' = wt
               /\ branch' = branch
               /\ unpushed' = unpushed]_vars

\* a scan failed on a repository that has a configuration file to commit
ScanFailedOnDirtyRepository ==
    /\ outcome = "scanfail"
    /\ pc = "idle"
    /\ \E p \in Paths : IsComposeFile(p) /\ wt[p] # head[p]

\* C15 as stated: every finished cycle, whatever its path, has the summary
\* line "Done." as its last report.
EveryCycleEndsWithSummary ==
    (pc = "idle" /\ outcome # "none") => LastLine = "Done."

\* C15 amended: a cycle that reached the commit loop ends with the summary
\* line "Done." on each of its paths (all commits failed, commits without
\* push, push success, push failure); a cycle abandoned by a scan failure
\* ends with the failure report, and a cycle with zero Changes ends with the
\* "no changes" report, neither followed by the summary line.
SummaryOnlyAfterCommitLoop ==
    (pc = "idle" /\ outcome # "none")
        => /\ outcome \in {"skippedpush", "done", "pushed", "pushfailed"}
              => LastLine = "Done."
           /\ outcome = "scanfail"
              => /\ LastLine \in {"Failed to get worktree", "Failed to get status"}
                 /\ ~Reported("Done.")
           /\ outcome = "nochanges"
              => /\ LastLine = "No compose file changes detected."
                 /\ ~Reported("Done.")

\* a cycle in which every commit failed has ended with the summary line
AllFailedCycleSummarised ==
    /\ pc = "idle"
    /\ outcome = "skippedpush"
    /\ Len(attempts) = 2
    /\ LastLine = "Done."

\* C16: a push that is already up to date ends like a completed push, with
\* no error returned and no failure reported by the cycle; every other push
\* error, a missing remote included, is returned and reported as a failure.
PushOutcomesClassified ==
    (pc = "idle" /\ pushCalls = 1)
        => /\ Reported("Pushing to remote...")
           /\ (Reported("Already up to date")
                 \/ Reported("Successfully pushed to remote"))
              => /\ outcome = "pushed"
                 /\ ~Reported("Failed to push to remote")
           /\ ~(Reported("Already up to date")
                  \/ Reported("Successfully pushed to remote"))
              => /\ outcome = "pushfailed"
                 /\ Reported("Failed to push to remote")
           /\ Reported("No remote available, please add one!")
              => outcome = "pushfailed"

\* a push that found the remote up to date has ended as a success
UpToDatePushSucceeded ==
    /\ pc = "idle"
    /\ pushCalls = 1
    /\ Reported("Already up to date")
    /\ outcome = "pushed"

\* C17: the branch only grows, by exactly one commit in exactly the steps
\* that are a successful commitStackChange call; a failed staging, a failed
\* commit, a scan (failed or not), a push (failed or not) and the end of a
\* cycle leave the branch and HEAD as they were.
BranchAppendOnly ==
    [][LET succeeded == /\ Len(attempts') = Len(attempts) + 1
                        /\ attempts'[Len(attempts')][2] = "none"
       IN  /\ succeeded
              => /\ Len(branch') = Len(branch) + 1
                 /\ SubSeq(branch', 1, Len(branch)) = branch
                 /\ head' # head
           /\ ~succeeded
              => /\ branch' = branch
                 /\ head' = head]_vars

\* a push failed after two commits of the cycle, and both are on the branch
PushFailedCommitsKept ==
    /\ outcome = "pushfailed"
    /\ commitCount = 2
    /\ Len(branch) >= 2
    /\ unpushed >= 2

\* C18: the steps of a cycle are in order: the report opens with the scan,
\* the attempts follow the classified list one by one in its order, the push
\* is called at most once, only when every Change has had its attempt, and
\* it ends the cycle.
StepsStrictlyOrdered ==
    /\ [](/\ pushCalls <= 1
          /\ i = Len(attempts) + 1
          /\ Len(attempts) <= Len(changes)
          /\ \A k \in DOMAIN attempts : attempts[k][1] = changes[k].FilePath
          /\ pushCalls = 1 => pc = "idle" /\ Len(attempts) = Len(changes)
          /\ pc = "commit" => Len(out) = 2 + Len(attempts)
          /\ \A k \in DOMAIN out :
               /\ out[k] = "Checking for compose file changes..." <=> k = 1
               /\ out[k] \in {"Created commit", "Failed to commit"}
                    <=> (k > 2 /\ k <= 2 + Len(attempts))
               /\ out[k] = "Pushing to remote..." => k = 3 + Len(changes))
    /\ [][Len(attempts') > Len(attempts)
            => /\ pc = "commit"
               /\ pushCalls = 0
               /\ pushCalls' = 0
               /\ Len(attempts') = Len(attempts) + 1
               /\ SubSeq(attempts', 1, Len(attempts)) = attempts]_vars
    /\ [][pushCalls' > pushCalls
            => /\ Len(attempts) = Len(changes)
               /\ attempts' = attempts
               /\ pc' = "idle"]_vars

\* a cycle with two attempts has pushed
PushedAfterTwoAttempts ==
    /\ pushCalls = 1
    /\ Len(attempts) = 2
    /\ Reported("Pushing to remote...")

\* C20: with push enabled, the commits a failed push left behind leave the
\* unpushed set only in a step that is a push call of a cycle with at least
\* one successful commit and that succeeds; a cycle that finds no Changes, or
\* in which no commit succeeds, calls no push and leaves them unpushed.
UnpushedWaitForCommittingCycle ==
    /\ [][unpushed' < unpushed
            => /\ pushFlag
               /\ commitCount > 0
               /\ pushCalls' = pushCalls + 1
               /\ outcome' = "pushed"]_vars
    /\ []((pc = "idle" /\ outcome \in {"nochanges", "skippedpush"})
            => pushCalls = 0)

\* push is enabled, earlier commits are unpushed, and a cycle found no Changes
UnpushedSurviveEmptyCycle ==
    /\ pushFlag
    /\ unpushed > 0
    /\ pc = "idle"
    /\ outcome = "nochanges"
    /\ prev.ran


\* ------------------------------------------------------------ main's claims
\* C11: the scheduler starts exactly one cycle at process start, before any
\* tick is consumed; every later cycle is the handling of one consumed tick,
\* started from the waiting select, so none starts once the cancellation has
\* been handled; and no cycle ever starts when the repository could not be
\* opened.
CyclesStartAtStartupAndOnTicks ==
    /\ [](/\ mainpc \in {"open", "startup", "fatal"}
             => cyclesStarted = 0 /\ ticksHandled = 0
          /\ mainpc \in {"cycle", "select", "exited"}
             => cyclesStarted = 1 + ticksHandled)
    /\ [][cyclesStarted' # cyclesStarted
            => /\ cyclesStarted' = cyclesStarted + 1
               /\ \/ /\ mainpc = "startup"
                     /\ cyclesStarted = 0
                     /\ ticksHandled' = 0
                  \/ /\ mainpc = "select"
                     /\ tickBuf > 0
                     /\ tickBuf' = tickBuf - 1
                     /\ ticksHandled' = ticksHandled + 1]_vars

\* a second cycle, started by the first consumed tick, has returned
TickCycleReturned ==
    /\ mainpc = "select"
    /\ cyclesStarted = 2
    /\ ticksHandled = 1

\* C12: the loop never handles a tick while a cancellation is pending, that
\* is while a received signal waits in sigChan.
NoTickHandledWhilePending ==
    [][ticksHandled' # ticksHandled => sigBuf = 0]_vars

\* C13: once a signal has arrived, whether main was waiting in the select or
\* a cycle was running, the ticker is eventually stopped and the loop left.
SignalLeadsToExit ==
    signalled ~> (mainpc = "exited" /\ tickerStopped)

\* the signal arrived while a cycle was running, and main has exited since
ExitedAfterSignalInCycle ==
    /\ mainpc = "exited"
    /\ tickerStopped
    /\ sigBuf = 0
    /\ cyclesStarted = 1
    /\ ticksFired = 0
    /\ outcome \in {"pushed", "pushfailed", "done"}

\* C19: cycles never overlap and ticks do not queue: a cycle is in progress
\* only while main is inside its one call of checkAndCommit, a new one starts
\* only after that call has returned, and at most one tick waits, however
\* many periods elapsed during the cycle.
CyclesNeverOverlapTicksNeverQueue ==
    /\ [](/\ tickBuf <= 1
          /\ pc # "idle" => mainpc = "cycle")
    /\ [][cyclesStarted' # cyclesStarted => pc = "idle" /\ mainpc # "cycle"]_vars

\* two periods elapsed during one cycle and a single tick is waiting
TwoPeriodsOneTick ==
    /\ mainpc = "select"
    /\ firedInCycle = 2
    /\ tickBuf = 1

====
